---- MODULE Spec2Model ----
(***************************************************************************)
(* Path simulation and calibration engine: the scenario calibrator         *)
(* (create_parameter_library / create_or_update_parameter_library), the    *)
(* library builder (generate_final_statistics_library), the crisis event   *)
(* scheduler (generate_clustered_crisis_events) and the event pipeline     *)
(* that injects the guaranteed early minor event, the path generator       *)
(* (generate_tanh_ou_path), the shock envelope (simulate_dislocation), the  *)
(* return capping filter (apply_return_capping), the path statistics       *)
(* (count_lost_periods, maximum drawdown) and the shock composer of the     *)
(* four copies of the pipeline.                                             *)
(*                                                                         *)
(* Floats of the parameter table are integers in units of 1e-8, so that    *)
(* numpy's isclose tolerance (atol = 1e-8 = 1 unit, rtol = 1e-5) is exact  *)
(* integer arithmetic.  Prices, returns and shock factors are integers in  *)
(* units of 1 / One.                                                        *)
(***************************************************************************)
EXTENDS Integers, Sequences, FiniteSets, TLC

(* ------------------------------ bounds --------------------------------- *)
\* calibrator runs started in one behaviour
MaxRuns == 2
\* longest target list handed to one calibrator run
MaxTargets == 2
\* trading days in a model year (252 in the code): every duration of the code
\* is kept in years and scaled by this
YearDays == 1
\* most rows of a parameter table handed to the library builder
MaxParamRows == 2
\* largest total_library_size handed to the library builder
MaxLibrarySize == 3
\* calls of the library builder in one behaviour
MaxLibCalls == 2
\* days scanned by a scheduler call with free parameters
SchedDays == 5
\* the uniform draws of the scheduler are u / RateDen, u in 0..RateDen-1, and
\* the daily rates are numerators over RateDen
RateDen == 4
\* most events the scheduler fires inside one pipeline run
MaxPipeEvents == 1
\* longest target list of a run that shares the file with another run
MaxConcTargets == 1
\* longest path and highest price level of one call of a path statistic
MaxPathLen == 5
MaxPrice == 3
\* longest path of one call of the return capping filter
MaxCapLen == 3
\* longest horizon of one call of the path generator
MaxHorizon == 3
\* states of the global random generator, days of a path whose draws are
\* followed one by one, and path simulations of one process
RngMod == 16
RngDays == 2
MaxPathRuns == 2
\* longest envelope, decline and recovery of one call of the envelope builder
MaxShockDays == 4
MaxDeclineDays == 2
MaxRecoveryDays == 2

(* ------------------------- program constants --------------------------- *)
\* years, days_long = 40, 40 * 252
Years == 40
\* count_lost_periods(final_prices, 10)
LostDecadeYears == 10
\* lost_decades <= 2
MaxLostDecades == 2
\* max_drop <= 0.75, as the fraction 3/4
MaxDropNum == 3
MaxDropDen == 4
\* trading days of a year in the code
TradingDays == 252
\* boost_period=2000, cooldown_period=756
DefaultBoostPeriod == 2000
DefaultCooldownPeriod == 756
\* np.random.randint(252, 252 * 5): from one year up to, not including, five
GuaranteedFromYears == 1
GuaranteedToYears == 5

(* ---------------------- numpy.isclose defaults ------------------------- *)
\* 1 / rtol, rtol = 1e-05
RtolInv == 100000
\* atol = 1e-08, in units of 1e-8
AtolUnits == 1

Abs(x) == IF x < 0 THEN -x ELSE x

Range(s) == {s[i] : i \in 1..Len(s)}

\* np.isclose(a, b): |a - b| <= atol + rtol * |b|. With a, b integers the
\* right-hand side may be floored without changing the comparison.
IsClose(a, b) == Abs(a - b) <= AtolUnits + (Abs(b) \div RtolInv)

(* --------------------------- calibrator -------------------------------- *)
Procs == {1, 2}

\* ScenarioTarget grid points. The second mean lies 41 units below the first:
\* a library row holding it is close to the first scenario, but a row holding
\* the first is not close to it (isclose scales its tolerance by |b|).
ScenarioPool ==
    { [mean |-> 4000000, spread |-> 100000000],
      [mean |-> 3999959, spread |-> 100000000],
      [mean |-> 4500000, spread |-> 125000000] }

\* optimization_bounds = [(0.03, 0.10), (0.12, 0.25), (0.5, 4.0)]: the
\* vectors result.x the optimizer may return (the two corners of the box).
OptVectors ==
    { [mu |-> 3000000,  sigma |-> 12000000, kappa |-> 50000000],
      [mu |-> 10000000, sigma |-> 25000000, kappa |-> 400000000] }

\* the OptimizeResult of differential_evolution: the best vector found and
\* whether the optimizer reports convergence
OptimizeResults == [x : OptVectors, success : BOOLEAN]

NoResult == [x |-> <<>>, success |-> FALSE]

\* the lower corner of optimization_bounds
LowerCorner == [mu |-> 3000000,  sigma |-> 12000000, kappa |-> 50000000]

BestVectorIfConverged(r) == IF r.success THEN r.x ELSE LowerCorner

\* line 194: best_mu, best_sigma, best_kappa = result.x
BestVector(r) == r.x

SeqsUpTo(S, n) == UNION { [1..k -> S] : k \in 0..n }

TargetLists == SeqsUpTo(ScenarioPool, MaxTargets)

Variants == {"create_parameter_library", "create_or_update_parameter_library"}

NoFile == [exists |-> FALSE, header |-> FALSE, rows |-> <<>>]

\* np.any(isclose(df.target_mean, s.mean) & isclose(df.target_spread, s.spread))
IsDone(df, s) ==
    \E i \in 1..Len(df) :
        IsClose(df[i].target_mean, s.mean) /\ IsClose(df[i].target_spread, s.spread)

FilterNotDone(df, ts) == SelectSeq(ts, LAMBDA s : ~IsDone(df, s))

ScenariosToRunNoLookup(variant, df, ts) == ts

\* scenarios_to_run of either entry point
ScenariosToRun(variant, df, ts) ==
    IF variant = "create_parameter_library"
    THEN FilterNotDone(df, ts)
    ELSE IF Len(df) # 0 THEN FilterNotDone(df, ts) ELSE ts

NewRow(s, x) ==
    [target_mean |-> s.mean, target_spread |-> s.spread,
     opt_mu |-> x.mu, opt_sigma |-> x.sigma, opt_kappa |-> x.kappa]

ConcatFront(df, row) == <<row>> \o df

\* pd.concat([param_library_df, new_row], ignore_index=True)
Concat(df, row) == Append(df, row)

\* what pd.read_csv returns for a readable file, what the code starts from
\* when there is no file
ReadRows(f) == IF f.exists THEN f.rows ELSE <<>>

VARIABLES
    file,               \* the persisted parameter table (param_library.csv)
    pc,                 \* position of each calibrator process
    target_scenarios,   \* argument of the run
    param_library_df,   \* in-memory table of the run
    scenarios_to_run,
    scenario_idx,       \* position in scenarios_to_run (1-based)
    rows_written,       \* rows of the running to_csv already in the file
    runs,               \* runs started
    solver_calls,       \* differential_evolution calls of the current run
    flushes,            \* completed to_csv calls of the current run
    file_at_start,      \* file as the current run found it
    rows_before_flush,  \* table rows in the file when the running to_csv began
    prev_targets,       \* target list of the latest run
    prev_returned,      \* the latest run returned normally
    resumed,            \* the run repeats the target list of a completed run
    result,             \* what the latest differential_evolution call returned
    persisted,          \* rows of the file at the latest completed to_csv
    flushed             \* rows each process has flushed by a completed to_csv

calVars == <<file, pc, target_scenarios, param_library_df, scenarios_to_run,
             scenario_idx, rows_written, runs, solver_calls, flushes,
             file_at_start, rows_before_flush, prev_targets, prev_returned,
             resumed, result, persisted, flushed>>

VARIABLES
    lib_pc,               \* position of the library builder
    param_df,             \* argument: the parameter table
    total_library_size,   \* argument
    n_paths_per_scenario,
    row_idx,              \* row of param_df being processed (1-based)
    path_i,               \* paths of the row simulated so far
    scenario_paths,       \* accepted paths of the row
    final_stats,          \* output rows
    lib_calls,            \* calls started
    simulated,            \* per row: paths simulated by the current call
    accepted,             \* per row: paths the current call accepted
    out_rows,             \* per row: output rows the current call appended
    completed_before      \* rows an earlier, interrupted call had completed

libVars == <<lib_pc, param_df, total_library_size, n_paths_per_scenario,
             row_idx, path_i, scenario_paths, final_stats, lib_calls,
             simulated, accepted, out_rows, completed_before>>

VARIABLES
    sch_pc,                 \* position of generate_clustered_crisis_events
    days,                   \* arguments
    base_minor_rate,
    base_major_rate,
    boost_k,
    boost_period,
    cooldown_period,
    day,                    \* loop variable
    events,                 \* events in firing order
    boosted_minor_until,
    boosted_major_until,
    major_cooldown_until,
    sched_result,           \* the returned list
    suppressed              \* a draw below the day's rate met the cooldown

schVars == <<sch_pc, days, base_minor_rate, base_major_rate, boost_k,
             boost_period, cooldown_period, day, events, boosted_minor_until,
             boosted_major_until, major_cooldown_until, sched_result,
             suppressed>>

VARIABLES
    pipe_pc,                \* position of the path pipeline
    guaranteed_crisis_day,
    pipe_events             \* the event list the composer loop iterates

pipeVars == <<pipe_pc, guaranteed_crisis_day, pipe_events>>

VARIABLES
    fn_pc,          \* "idle", "called" or "returned": one call of a path function
    fn_args,        \* the arguments of the call
    fn_out          \* what the call returned

fnVars == <<fn_pc, fn_args, fn_out>>

VARIABLES
    gen_pc,         \* "idle", "called", "loop" or "returned": the generator
    gen_args,       \* days, mu, sigma, kappa, beta and S0 of the call
    log_S0,
    ou_X,           \* X
    ou_i,           \* i, the number of loop rounds done
    ou_path         \* path

genVars == <<gen_pc, gen_args, log_S0, ou_X, ou_i, ou_path>>

VARIABLES
    cmp_variant,        \* the copy of the pipeline that runs
    base_price_path,
    cumulative_shock,
    peak_price,
    cmp_next,           \* the place in the event list of the event to compose
    cmp_drops,          \* per composed event, the drop drawn and the drop passed
    path_final_prices

cmpVars == <<cmp_variant, base_price_path, cumulative_shock, peak_price,
             cmp_next, cmp_drops, path_final_prices>>

VARIABLES
    scan_pc,                \* "idle", "called", "loop", "returned" or "IndexError"
    scan_args,              \* prices and period_length_years of the call
    period_length_days,
    scan_i,                 \* i
    scan_count,             \* count
    scan_iters              \* rounds of the while loop done

scanVars == <<scan_pc, scan_args, period_length_days, scan_i, scan_count, scan_iters>>

VARIABLES
    cfg_pc,         \* "idle", "called", "unpacked", "generated", "rates" or "raised"
    cfg_variant,    \* the copy of the pipeline that runs
    cfg_params,     \* minor_yrs and major_yrs as the caller gave them
    cfg_rates,      \* base_minor_rate and base_major_rate
    cfg_error,      \* the exception that left the pipeline
    cfg_generated   \* generate_tanh_ou_path calls made

cfgVars == <<cfg_pc, cfg_variant, cfg_params, cfg_rates, cfg_error, cfg_generated>>

VARIABLES
    rng_caller,     \* the code that runs path simulations in this process
    rng_state,      \* the state of the global generator of np.random
    rng_taint,      \* the path simulations whose draws rng_state depends on
    path_runs       \* one record per path simulation, in order

rngVars == <<rng_caller, rng_state, rng_taint, path_runs>>

vars == <<calVars, libVars, schVars, pipeVars, fnVars, genVars, cmpVars, scanVars,
          cfgVars, rngVars>>

nonCalVars == <<libVars, schVars, pipeVars, fnVars, genVars, cmpVars, scanVars, cfgVars, rngVars>>
nonLibVars == <<calVars, schVars, pipeVars, fnVars, genVars, cmpVars, scanVars, cfgVars, rngVars>>
nonSchVars == <<calVars, libVars, pipeVars, fnVars, genVars, cmpVars, scanVars, cfgVars, rngVars>>
nonSchPipeVars == <<calVars, libVars, fnVars, genVars, cmpVars, scanVars, cfgVars, rngVars>>
nonFnVars == <<calVars, libVars, schVars, pipeVars, genVars, cmpVars, scanVars, cfgVars, rngVars>>
nonGenVars == <<calVars, libVars, schVars, pipeVars, fnVars, cmpVars, scanVars, cfgVars, rngVars>>
nonCmpVars == <<calVars, libVars, fnVars, genVars, scanVars, cfgVars, rngVars>>
nonCfgVars == <<calVars, libVars, schVars, pipeVars, fnVars, genVars, cmpVars, scanVars, rngVars>>
nonRngVars == <<calVars, libVars, schVars, pipeVars, fnVars, genVars, cmpVars, scanVars, cfgVars>>
nonScanVars == <<calVars, libVars, schVars, pipeVars, fnVars, genVars, cmpVars, cfgVars, rngVars>>

Stopped == {"idle", "returned", "raised", "killed"}
InToCsv == {"to_csv_open", "to_csv_header", "to_csv_rows"}

CalInit ==
    /\ file = NoFile
    /\ pc = [p \in Procs |-> "idle"]
    /\ target_scenarios = [p \in Procs |-> <<>>]
    /\ param_library_df = [p \in Procs |-> <<>>]
    /\ scenarios_to_run = [p \in Procs |-> <<>>]
    /\ scenario_idx = [p \in Procs |-> 0]
    /\ rows_written = [p \in Procs |-> 0]
    /\ runs = 0
    /\ solver_calls = [p \in Procs |-> 0]
    /\ flushes = [p \in Procs |-> 0]
    /\ file_at_start = [p \in Procs |-> NoFile]
    /\ rows_before_flush = [p \in Procs |-> <<>>]
    /\ prev_targets = <<>>
    /\ prev_returned = FALSE
    /\ resumed = [p \in Procs |-> FALSE]
    /\ result = [p \in Procs |-> NoResult]
    /\ persisted = <<>>
    /\ flushed = [p \in Procs |-> {}]

\* lines 170-185: read the table, compute scenarios_to_run, return at once
\* when nothing is left. read_csv raises on a file without a header line.
Start(p) ==
    /\ UNCHANGED nonCalVars
    /\ pc[p] \in Stopped
    /\ runs < MaxRuns
    /\ \E ts \in TargetLists, v \in Variants :
        /\ runs' = runs + 1
        /\ target_scenarios' = [target_scenarios EXCEPT ![p] = ts]
        /\ solver_calls' = [solver_calls EXCEPT ![p] = 0]
        /\ flushes' = [flushes EXCEPT ![p] = 0]
        /\ file_at_start' = [file_at_start EXCEPT ![p] = file]
        /\ resumed' = [resumed EXCEPT ![p] = prev_returned /\ ts = prev_targets]
        /\ prev_targets' = ts
        /\ rows_written' = [rows_written EXCEPT ![p] = 0]
        /\ result' = [result EXCEPT ![p] = NoResult]
        /\ IF file.exists /\ ~file.header
           THEN /\ pc' = [pc EXCEPT ![p] = "raised"]
                /\ prev_returned' = FALSE
                /\ param_library_df' = [param_library_df EXCEPT ![p] = <<>>]
                /\ scenarios_to_run' = [scenarios_to_run EXCEPT ![p] = <<>>]
                /\ scenario_idx' = [scenario_idx EXCEPT ![p] = 0]
           ELSE LET df == ReadRows(file)
                    todo == ScenariosToRun(v, df, ts)
                IN  /\ param_library_df' = [param_library_df EXCEPT ![p] = df]
                    /\ scenarios_to_run' = [scenarios_to_run EXCEPT ![p] = todo]
                    /\ IF todo = <<>>
                       THEN /\ pc' = [pc EXCEPT ![p] = "returned"]
                            /\ prev_returned' = TRUE
                            /\ scenario_idx' = [scenario_idx EXCEPT ![p] = 0]
                       ELSE /\ pc' = [pc EXCEPT ![p] = "optimize"]
                            /\ prev_returned' = FALSE
                            /\ scenario_idx' = [scenario_idx EXCEPT ![p] = 1]
    /\ UNCHANGED <<file, rows_before_flush, persisted, flushed>>

\* lines 189-196: differential_evolution, then the new row is concatenated
Optimize(p) ==
    /\ UNCHANGED nonCalVars
    /\ pc[p] = "optimize"
    /\ \E r \in OptimizeResults :
        /\ result' = [result EXCEPT ![p] = r]
        /\ param_library_df' = [param_library_df EXCEPT ![p] =
               Concat(@, NewRow(scenarios_to_run[p][scenario_idx[p]], BestVector(r)))]
    /\ solver_calls' = [solver_calls EXCEPT ![p] = @ + 1]
    /\ pc' = [pc EXCEPT ![p] = "to_csv_open"]
    /\ UNCHANGED <<file, target_scenarios, scenarios_to_run, scenario_idx,
                   rows_written, runs, flushes, file_at_start, rows_before_flush,
                   prev_targets, prev_returned, resumed, persisted, flushed>>

\* line 197, to_csv(filename): the file is opened for writing, truncating it
ToCsvOpen(p) ==
    /\ UNCHANGED nonCalVars
    /\ pc[p] = "to_csv_open"
    /\ rows_before_flush' = [rows_before_flush EXCEPT ![p] = ReadRows(file)]
    /\ file' = [exists |-> TRUE, header |-> FALSE, rows |-> <<>>]
    /\ rows_written' = [rows_written EXCEPT ![p] = 0]
    /\ pc' = [pc EXCEPT ![p] = "to_csv_header"]
    /\ UNCHANGED <<target_scenarios, result, param_library_df, scenarios_to_run,
                   scenario_idx, runs, solver_calls, flushes, file_at_start,
                   prev_targets, prev_returned, resumed, persisted, flushed>>

\* line 197, to_csv: the header line reaches the file
ToCsvHeader(p) ==
    /\ UNCHANGED nonCalVars
    /\ pc[p] = "to_csv_header"
    /\ file' = [file EXCEPT !.exists = TRUE, !.header = TRUE]
    /\ pc' = [pc EXCEPT ![p] = "to_csv_rows"]
    /\ UNCHANGED <<target_scenarios, result, param_library_df, scenarios_to_run,
                   scenario_idx, rows_written, runs, solver_calls, flushes,
                   file_at_start, rows_before_flush, prev_targets, prev_returned,
                   resumed, persisted, flushed>>

\* line 197, to_csv: the next row of the in-memory table reaches the file;
\* after the last one the file is closed and to_csv returns
ToCsvRow(p) ==
    /\ UNCHANGED nonCalVars
    /\ pc[p] = "to_csv_rows"
    /\ LET k == rows_written[p] + 1
           df == param_library_df[p]
       IN  /\ file' = [file EXCEPT !.exists = TRUE, !.rows = Append(@, df[k])]
           /\ rows_written' = [rows_written EXCEPT ![p] = k]
           /\ IF k = Len(df)
              THEN /\ pc' = [pc EXCEPT ![p] = "saved"]
                   /\ flushes' = [flushes EXCEPT ![p] = @ + 1]
                   /\ persisted' = file'.rows
                   /\ flushed' = [flushed EXCEPT ![p] = @ \cup {df[Len(df)]}]
              ELSE UNCHANGED <<pc, flushes, persisted, flushed>>
    /\ UNCHANGED <<target_scenarios, result, param_library_df, scenarios_to_run,
                   scenario_idx, runs, solver_calls, file_at_start,
                   rows_before_flush, prev_targets, prev_returned, resumed>>

\* lines 198-199: progress is reported, the loop goes on or the run returns
Saved(p) ==
    /\ UNCHANGED nonCalVars
    /\ pc[p] = "saved"
    /\ IF scenario_idx[p] < Len(scenarios_to_run[p])
       THEN /\ scenario_idx' = [scenario_idx EXCEPT ![p] = @ + 1]
            /\ pc' = [pc EXCEPT ![p] = "optimize"]
            /\ UNCHANGED prev_returned
       ELSE /\ pc' = [pc EXCEPT ![p] = "returned"]
            /\ prev_returned' = TRUE
            /\ UNCHANGED scenario_idx
    /\ UNCHANGED <<file, target_scenarios, result, param_library_df, scenarios_to_run,
                   rows_written, runs, solver_calls, flushes, file_at_start,
                   rows_before_flush, prev_targets, resumed, persisted, flushed>>

\* the process is interrupted: its memory is gone, the file stays as it is
Kill(p) ==
    /\ UNCHANGED nonCalVars
    /\ pc[p] \in {"optimize", "saved"} \cup InToCsv
    /\ pc' = [pc EXCEPT ![p] = "killed"]
    /\ prev_returned' = FALSE
    /\ UNCHANGED <<file, target_scenarios, result, param_library_df, scenarios_to_run,
                   scenario_idx, rows_written, runs, solver_calls, flushes,
                   file_at_start, rows_before_flush, prev_targets, resumed,
                   persisted, flushed>>

\* a write of to_csv fails: the exception leaves create_parameter_library
WriteFails(p) ==
    /\ UNCHANGED nonCalVars
    /\ pc[p] \in InToCsv
    /\ pc' = [pc EXCEPT ![p] = "raised"]
    /\ prev_returned' = FALSE
    /\ UNCHANGED <<file, target_scenarios, result, param_library_df, scenarios_to_run,
                   scenario_idx, rows_written, runs, solver_calls, flushes,
                   file_at_start, rows_before_flush, prev_targets, resumed,
                   persisted, flushed>>

Continue(p) ==
    \/ Optimize(p)
    \/ ToCsvOpen(p)
    \/ ToCsvHeader(p)
    \/ ToCsvRow(p)
    \/ Saved(p)

Run(p) == Start(p) \/ Continue(p)

(* ------------------------ path statistics ------------------------------ *)
Max(S) == CHOOSE x \in S : \A y \in S : y <= x

Rep(v, n) == [i \in 1..n |-> v]

\* a whole number of years as a fraction of years
Whole(n) == [num |-> n, den |-> 1]

\* int(period_length_years * 252), period_length_years >= 0 being the
\* fraction num / den of a year
PeriodDays(period_length_years) ==
    (period_length_years.num * YearDays) \div period_length_years.den

\* np.maximum.accumulate(prices)[t - 1]
RunMax(prices, t) == Max({prices[u] : u \in 1..t})

RECURSIVE LostScanSliding(_, _, _, _)
LostScanSliding(prices, P, i, count) ==
    IF i > Len(prices) - P THEN [outcome |-> "returned", count |-> count]
    ELSE IF i >= Len(prices) THEN [outcome |-> "IndexError", count |-> count]
    ELSE LET peak == RunMax(prices, i + 1)
         IN  IF prices[i + 1] < peak /\ \A u \in (i + 1)..(i + P) : prices[u] < peak
             THEN LostScanSliding(prices, P, i + 1, count + 1)
             ELSE LostScanSliding(prices, P, i + 1, count)

RECURSIVE LostScanWholeSpan(_, _, _, _)
LostScanWholeSpan(prices, P, i, count) ==
    IF i > Len(prices) - P THEN [outcome |-> "returned", count |-> count]
    ELSE IF i >= Len(prices) THEN [outcome |-> "IndexError", count |-> count]
    ELSE LET peak == RunMax(prices, i + 1)
             rest == {u \in (i + 1)..Len(prices) : prices[u] >= peak}
             next == IF rest = {} THEN Len(prices)
                     ELSE (CHOOSE u \in rest : \A v \in rest : u <= v) - 1
         IN  IF prices[i + 1] < peak /\ \A u \in (i + 1)..(i + P) : prices[u] < peak
             THEN LostScanWholeSpan(prices, P, next, count + 1)
             ELSE LostScanWholeSpan(prices, P, i + 1, count)

RECURSIVE LostScanStopsEarly(_, _, _, _)
LostScanStopsEarly(prices, P, i, count) ==
    IF i >= Len(prices) - P THEN [outcome |-> "returned", count |-> count]
    ELSE LET peak == RunMax(prices, i + 1)
         IN  IF prices[i + 1] < peak /\ \A u \in (i + 1)..(i + P) : prices[u] < peak
             THEN LostScanStopsEarly(prices, P, i + P, count + 1)
             ELSE LostScanStopsEarly(prices, P, i + 1, count)

\* lines 105-115: the while loop of count_lost_periods from index i (0-based)
\* on. highs[i] raises IndexError once i reaches len(prices), which the loop
\* condition allows when the period is 0 days; a window of 0 days below the
\* peak qualifies and moves i by 0 days, so the loop never ends.
RECURSIVE LostScan(_, _, _, _)
LostScan(prices, P, i, count) ==
    IF i > Len(prices) - P THEN [outcome |-> "returned", count |-> count]
    ELSE IF i >= Len(prices) THEN [outcome |-> "IndexError", count |-> count]
    ELSE LET peak == RunMax(prices, i + 1)
         IN  IF prices[i + 1] < peak
             THEN IF \A u \in (i + 1)..(i + P) : prices[u] < peak
                  THEN IF P = 0
                       THEN [outcome |-> "never returns", count |-> count + 1]
                       ELSE LostScan(prices, P, i + P, count + 1)
                  ELSE LostScan(prices, P, i + 1, count)
             ELSE LostScan(prices, P, i + 1, count)

count_lost_periods(prices, period_length_years) ==
    LET P == PeriodDays(period_length_years)
    IN  IF Len(prices) < P THEN [outcome |-> "returned", count |-> 0]
        ELSE LostScan(prices, P, 0, 0)

MaxDropAbsolute(prices) ==
    LET drops == { RunMax(prices, t) - prices[t] : t \in 1..Len(prices) }
    IN  [num |-> Max(drops), den |-> 1]

\* 1 - np.min(prices / np.maximum.accumulate(prices)), as a fraction: the
\* greatest (peak - price) / peak over the days of the path
MaxDrop(prices) ==
    LET drops == { [num |-> RunMax(prices, t) - prices[t],
                    den |-> RunMax(prices, t)] : t \in 1..Len(prices) }
    IN  CHOOSE d \in drops : \A e \in drops : d.num * e.den >= e.num * d.den

\* max_drop <= 0.75
DropWithinLimit(drop) == drop.num * MaxDropDen <= MaxDropNum * drop.den

(* -------------------------- library builder ---------------------------- *)
\* int(np.ceil(total / n)), n > 0
CeilDiv(total, n) == -((-total) \div n)

\* A final price path of the simulation: a start price, then segments
\* <<price, years>> whose years add up to Years. Prices are in units of 1/4.
RECURSIVE Segments(_)
Segments(segs) ==
    IF segs = <<>> THEN <<>>
    ELSE Rep(Head(segs)[1], Head(segs)[2] * YearDays) \o Segments(Tail(segs))

PathOf(start, segs) == <<start>> \o Segments(segs)

\* what one simulation may return, whatever the random stream:
\*   a path that never falls;
\*   one that falls by exactly 0.75 for exactly two decades and recovers;
\*   one that falls by 0.8 for five years;
\*   one that stays 0.2 below its peak for 35 years;
\*   one that falls by 0.8 and stays there
SamplePaths ==
    { PathOf(4, << <<5, Years>> >>),
      PathOf(4, << <<4, 10>>, <<1, 20>>, <<4, 10>> >>),
      PathOf(4, << <<5, 20>>, <<1, 5>>, <<5, 15>> >>),
      PathOf(4, << <<5, 5>>, <<4, 35>> >>),
      PathOf(4, << <<5, 1>>, <<1, 39>> >>) }

AcceptedEither(final_prices) ==
    \/ DropWithinLimit(MaxDrop(final_prices))
    \/ count_lost_periods(final_prices, Whole(LostDecadeYears)).count <= MaxLostDecades

\* line 239: if max_drop <= 0.75 and lost_decades <= 2
Accepted(final_prices) ==
    /\ DropWithinLimit(MaxDrop(final_prices))
    /\ count_lost_periods(final_prices, Whole(LostDecadeYears)).count <= MaxLostDecades

PathLoopUntilQuota(i, n, kept) == kept < n

\* line 216: for i in range(n_paths_per_scenario)
PathLoopContinues(i, n, kept) == i < n

\* lines 251-261; the percentile columns and the annualisation of the return
\* are left out, the return is kept as the pair (last price, first price)
StatsRow(path, row, id) ==
    [path_id |-> id,
     target_mean |-> row.target_mean,
     target_spread |-> row.target_spread,
     growth |-> <<path[Len(path)], path[1]>>,
     max_drop |-> MaxDrop(path),
     lost_decades |-> count_lost_periods(path, Whole(LostDecadeYears)).count]

\* lines 250-262: one row per accepted path, path_id = len(final_stats)
ScenarioRows(paths, row, base) ==
    [k \in 1..Len(paths) |-> StatsRow(paths[k], row, base + k - 1)]

ParamRowPool ==
    { NewRow([mean |-> 4000000, spread |-> 100000000],
             [mu |-> 3000000, sigma |-> 12000000, kappa |-> 50000000]),
      NewRow([mean |-> 4500000, spread |-> 125000000],
             [mu |-> 10000000, sigma |-> 25000000, kappa |-> 400000000]) }

ParamTables == SeqsUpTo(ParamRowPool, MaxParamRows)

Zeroes(n) == [r \in 1..n |-> 0]

\* the library builder before its first call, arguments chosen
LibInit ==
    /\ lib_pc = "idle"
    /\ param_df \in ParamTables
    /\ total_library_size \in 0..MaxLibrarySize
    /\ n_paths_per_scenario = 0
    /\ row_idx = 0
    /\ path_i = 0
    /\ scenario_paths = <<>>
    /\ final_stats = <<>>
    /\ lib_calls = 0
    /\ simulated = Zeroes(Len(param_df))
    /\ accepted = Zeroes(Len(param_df))
    /\ out_rows = Zeroes(Len(param_df))
    /\ completed_before = {}

\* the library builder left alone
LibIdle ==
    /\ lib_pc = "idle"
    /\ param_df = <<>>
    /\ total_library_size = 0
    /\ n_paths_per_scenario = 0
    /\ row_idx = 0
    /\ path_i = 0
    /\ scenario_paths = <<>>
    /\ final_stats = <<>>
    /\ lib_calls = 0
    /\ simulated = <<>>
    /\ accepted = <<>>
    /\ out_rows = <<>>
    /\ completed_before = {}

\* lines 206-211: generate_final_statistics_library is called (again, with
\* the same arguments): nothing of an earlier call is left
LibCall ==
    /\ UNCHANGED nonLibVars
    /\ lib_pc \in {"idle", "interrupted", "returned"}
    /\ lib_calls < MaxLibCalls
    /\ lib_calls' = lib_calls + 1
    /\ final_stats' = <<>>
    /\ scenario_paths' = <<>>
    /\ path_i' = 0
    /\ simulated' = Zeroes(Len(param_df))
    /\ accepted' = Zeroes(Len(param_df))
    /\ out_rows' = Zeroes(Len(param_df))
    /\ IF Len(param_df) = 0
       THEN /\ lib_pc' = "returned"
            /\ n_paths_per_scenario' = 0
            /\ row_idx' = 0
       ELSE /\ lib_pc' = "scenario"
            /\ n_paths_per_scenario' = CeilDiv(total_library_size, Len(param_df))
            /\ row_idx' = 1
    /\ UNCHANGED <<param_df, total_library_size, completed_before>>

\* lines 216-240: one path is simulated and kept if it passes the filter
SimulatePath ==
    /\ UNCHANGED nonLibVars
    /\ lib_pc = "scenario"
    /\ PathLoopContinues(path_i, n_paths_per_scenario, Len(scenario_paths))
    /\ \E final_prices \in SamplePaths :
        IF Accepted(final_prices)
        THEN /\ scenario_paths' = Append(scenario_paths, final_prices)
             /\ accepted' = [accepted EXCEPT ![row_idx] = @ + 1]
        ELSE UNCHANGED <<scenario_paths, accepted>>
    /\ path_i' = path_i + 1
    /\ simulated' = [simulated EXCEPT ![row_idx] = @ + 1]
    /\ UNCHANGED <<lib_pc, param_df, total_library_size, n_paths_per_scenario,
                   row_idx, final_stats, lib_calls, out_rows, completed_before>>

\* lines 242-264: the path loop is over; the rows of the scenario are
\* appended (none if no path was kept), then the next row or the return
FinishScenario ==
    /\ UNCHANGED nonLibVars
    /\ lib_pc = "scenario"
    /\ ~PathLoopContinues(path_i, n_paths_per_scenario, Len(scenario_paths))
    /\ final_stats' = final_stats \o
            ScenarioRows(scenario_paths, param_df[row_idx], Len(final_stats))
    /\ out_rows' = [out_rows EXCEPT ![row_idx] = Len(scenario_paths)]
    /\ scenario_paths' = <<>>
    /\ path_i' = 0
    /\ IF row_idx < Len(param_df)
       THEN /\ row_idx' = row_idx + 1
            /\ UNCHANGED lib_pc
       ELSE /\ lib_pc' = "returned"
            /\ UNCHANGED row_idx
    /\ UNCHANGED <<param_df, total_library_size, n_paths_per_scenario,
                   lib_calls, simulated, accepted, completed_before>>

\* the process is interrupted during the call: final_stats lived in memory
LibInterrupt ==
    /\ UNCHANGED nonLibVars
    /\ lib_pc = "scenario"
    /\ lib_pc' = "interrupted"
    /\ completed_before' = completed_before \cup 1..(row_idx - 1)
    /\ final_stats' = <<>>
    /\ scenario_paths' = <<>>
    /\ UNCHANGED <<param_df, total_library_size, n_paths_per_scenario, row_idx,
                   path_i, lib_calls, simulated, accepted, out_rows>>

(* ------------------------- crisis scheduler ---------------------------- *)
\* a duration of the code, in days, on the model's scale of YearDays a year
ScaleDays(d) == (d * YearDays) \div TradingDays

\* tuple order of (day, 'minor' | 'major'): 'major' < 'minor'
EventLess(a, b) ==
    \/ a.day < b.day
    \/ a.day = b.day /\ a.typ = "major" /\ b.typ = "minor"

\* sorted(list(set(events)))
RECURSIVE SortSet(_)
SortSet(S) ==
    IF S = {} THEN <<>>
    ELSE LET least == CHOOSE a \in S : \A b \in S \ {a} : EventLess(a, b)
         IN  <<least>> \o SortSet(S \ {least})

\* sorted(events) of a list without repeated entries
Sorted(evs) == SortSet(Range(evs))

RateTodayMinorKept(base, mult, boosted, cooling, isMajor) ==
    IF cooling /\ isMajor THEN 0
    ELSE base * (IF boosted THEN mult ELSE 1)

RateTodayNoBoost(base, mult, boosted, cooling, isMajor) ==
    IF cooling THEN 0 ELSE base

\* lines 85-88: the rate of a class today, zero inside the major cooldown
RateToday(base, mult, boosted, cooling, isMajor) ==
    IF cooling THEN 0
    ELSE base * (IF boosted THEN mult ELSE 1)

\* np.random.rand() < rate, the draw being u / RateDen
Fires(u, rate) == u < rate

Draws == 0..(RateDen - 1)

BaseRates == {0, 1, RateDen}
BoostFactors == {0, 2}
BoostPeriods == {1, 3}
CooldownPeriods == {0, 2, 3}

SchedIdle ==
    /\ sch_pc = "idle"
    /\ days = 0
    /\ base_minor_rate = 0
    /\ base_major_rate = 0
    /\ boost_k = 0
    /\ boost_period = 0
    /\ cooldown_period = 0
    /\ day = 0
    /\ events = <<>>
    /\ boosted_minor_until = -1
    /\ boosted_major_until = -1
    /\ major_cooldown_until = -1
    /\ sched_result = <<>>
    /\ suppressed = FALSE

\* lines 82-83: the scheduler entered with arguments of its caller's choice
SchedInit ==
    /\ sch_pc = "loop"
    /\ days = SchedDays
    /\ base_minor_rate \in BaseRates
    /\ base_major_rate \in BaseRates
    /\ boost_k \in BoostFactors
    /\ boost_period \in BoostPeriods
    /\ cooldown_period \in CooldownPeriods
    /\ day = 0
    /\ events = <<>>
    /\ boosted_minor_until = -1
    /\ boosted_major_until = -1
    /\ major_cooldown_until = -1
    /\ sched_result = <<>>
    /\ suppressed = FALSE

\* lines 85-88: the rates of the day the loop is at
minor_rate_today ==
    RateToday(base_minor_rate, boost_k, day < boosted_minor_until,
              day < major_cooldown_until, FALSE)

major_rate_today ==
    RateToday(base_major_rate, boost_k, day < boosted_major_until,
              day < major_cooldown_until, TRUE)

\* lines 84-95: one day of the loop, with its two draws
SchedDay ==
    /\ sch_pc = "loop"
    /\ day < days
    /\ \E um \in Draws, uj \in Draws :
        LET cooling == day < major_cooldown_until
            fire_minor == Fires(um, minor_rate_today)
            fire_major == Fires(uj, major_rate_today)
            after_minor == IF fire_minor
                           THEN Append(events, [day |-> day, typ |-> "minor"])
                           ELSE events
        IN  /\ events' = IF fire_major
                         THEN Append(after_minor, [day |-> day, typ |-> "major"])
                         ELSE after_minor
            /\ boosted_minor_until' = IF fire_minor THEN day + boost_period
                                      ELSE boosted_minor_until
            /\ boosted_major_until' = IF fire_major THEN day + boost_period
                                      ELSE boosted_major_until
            /\ major_cooldown_until' = IF fire_major THEN day + cooldown_period
                                       ELSE major_cooldown_until
            /\ suppressed' = (suppressed \/
                                (cooling /\ (um < base_minor_rate \/ uj < base_major_rate)))
    /\ day' = day + 1
    /\ UNCHANGED <<sch_pc, days, base_minor_rate, base_major_rate, boost_k,
                   boost_period, cooldown_period, sched_result>>

\* line 96: return sorted(events)
SchedReturn ==
    /\ sch_pc = "loop"
    /\ day = days
    /\ sch_pc' = "returned"
    /\ sched_result' = Sorted(events)
    /\ UNCHANGED <<days, base_minor_rate, base_major_rate, boost_k,
                   boost_period, cooldown_period, day, events,
                   boosted_minor_until, boosted_major_until,
                   major_cooldown_until, suppressed>>

(* --------------------------- path pipeline ----------------------------- *)
\* fixed_params: the daily rates 1 / (minor_yrs * 252) and 1 / (major_yrs * 252)
\* as numerators over RateDen, and the boost factor k
PipeRates == [minor |-> 1, major |-> 1, k |-> 2]

\* np.random.randint(252, 252 * 5)
GuaranteedDays ==
    ScaleDays(GuaranteedFromYears * TradingDays) ..
        (ScaleDays(GuaranteedToYears * TradingDays) - 1)

InjectKeepDuplicates(evs, g) ==
    LET e == [day |-> g, typ |-> "minor"]
        k == Cardinality({i \in 1..Len(evs) : EventLess(evs[i], e) \/ evs[i] = e})
    IN  SubSeq(evs, 1, k) \o <<e>> \o SubSeq(evs, k + 1, Len(evs))

InjectIfQuiet(evs, g) ==
    IF evs = <<>> THEN SortSet({[day |-> g, typ |-> "minor"]}) ELSE SortSet(Range(evs))

\* lines 132-133: events.append((guaranteed_crisis_day, 'minor'));
\* events = sorted(list(set(events)))
InjectGuaranteed(evs, g) ==
    SortSet(Range(Append(evs, [day |-> g, typ |-> "minor"])))

PipeIdle ==
    /\ pipe_pc = "idle"
    /\ guaranteed_crisis_day = -1
    /\ pipe_events = <<>>

\* line 130: the pipeline calls the scheduler for days_long days, with the
\* default boost and cooldown periods
PipeCall ==
    /\ UNCHANGED nonSchPipeVars
    /\ pipe_pc = "idle"
    /\ sch_pc = "idle"
    /\ pipe_pc' = "scheduling"
    /\ sch_pc' = "loop"
    /\ days' = Years * YearDays
    /\ base_minor_rate' = PipeRates.minor
    /\ base_major_rate' = PipeRates.major
    /\ boost_k' = PipeRates.k
    /\ boost_period' = ScaleDays(DefaultBoostPeriod)
    /\ cooldown_period' = ScaleDays(DefaultCooldownPeriod)
    /\ day' = 0
    /\ events' = <<>>
    /\ boosted_minor_until' = -1
    /\ boosted_major_until' = -1
    /\ major_cooldown_until' = -1
    /\ UNCHANGED <<sched_result, suppressed, guaranteed_crisis_day, pipe_events>>

\* a day of the scheduler inside the pipeline, for the random streams that
\* fire at most MaxPipeEvents events
PipeSchedDay ==
    /\ UNCHANGED nonSchPipeVars
    /\ pipe_pc = "scheduling"
    /\ SchedDay
    /\ Len(events') <= MaxPipeEvents
    /\ UNCHANGED pipeVars

PipeSchedReturn ==
    /\ UNCHANGED nonSchPipeVars
    /\ pipe_pc = "scheduling"
    /\ SchedReturn
    /\ UNCHANGED pipeVars

\* lines 131-133: the guaranteed minor event is injected
PipeInject ==
    /\ UNCHANGED nonSchPipeVars
    /\ pipe_pc = "scheduling"
    /\ sch_pc = "returned"
    /\ \E g \in GuaranteedDays :
        /\ guaranteed_crisis_day' = g
        /\ pipe_events' = InjectGuaranteed(sched_result, g)
    /\ pipe_pc' = "compose"
    /\ UNCHANGED schVars

(* ------------------------ fixed-point floats --------------------------- *)
\* the float 1.0; a float is an integer count of 1 / One
One == 1000

\* the arguments of exp the model evaluates lie in -ExpRange .. ExpRange
ExpRange == 7

Min(a, b) == IF a < b THEN a ELSE b

\* a / b rounded towards zero, b > 0
TruncDiv(a, b) == IF a >= 0 THEN a \div b ELSE -((-a) \div b)

\* a * b and a / b
Mul(a, b) == TruncDiv(a * b, One)
Div(a, b) == IF b > 0 THEN TruncDiv(a * One, b) ELSE TruncDiv(-(a * One), -b)

\* the sum of the terms x^m / m! for m >= n, term being x^(n-1) / (n-1)!
RECURSIVE ExpSeries(_, _, _)
ExpSeries(x, n, term) ==
    IF term = 0 THEN 0
    ELSE term + ExpSeries(x, n + 1, (term * x) \div (n * One))

\* np.exp(x), x <= ExpRange; below -ExpRange it is less than half of 1 / One
Exp(x) ==
    IF x >= 0 THEN ExpSeries(x, 1, One)
    ELSE IF x < -ExpRange * One THEN 0
    ELSE (One * One) \div ExpSeries(-x, 1, One)

\* the sum of the terms y^m / m for odd m >= n, pow being y^n, y2 being y^2
RECURSIVE AtanhSeries(_, _, _)
AtanhSeries(y2, n, pow) ==
    IF pow = 0 THEN 0
    ELSE TruncDiv(pow, n) + AtanhSeries(y2, n + 2, Mul(pow, y2))

\* np.log(x), x > 0: x is brought into 1/2 .. 2 by factors of e, and there
\* log(x) = 2 * atanh((x - 1) / (x + 1))
RECURSIVE Ln(_)
Ln(x) ==
    IF 2 * x < One THEN Ln(Mul(x, Exp(One))) - One
    ELSE IF x > 2 * One THEN Ln(Div(x, Exp(One))) + One
    ELSE LET y == Div(x - One, x + One)
         IN  2 * AtanhSeries(Mul(y, y), 1, y)

\* np.tanh(z), which is 1 - 2 / (exp(2z) + 1); beyond ExpRange / 2 it is
\* within 2 / One of 1
Tanh(z) ==
    IF 2 * z > ExpRange * One THEN One
    ELSE IF 2 * z < -ExpRange * One THEN -One
    ELSE LET e2 == Exp(2 * z) IN Div(e2 - One, e2 + One)

\* np.sqrt(x), 0 <= x <= 1
Sqrt(x) == CHOOSE r \in 0..One : r * r <= x * One /\ (r + 1) * (r + 1) > x * One

(* ------------------------- shock envelope ------------------------------ *)
\* shape_k=10
ShapeK == 10

\* L = lambda x, d: 1/(1 + np.exp(-shape_k * (x/d - 0.5))), d > 0
Logistic(x, d) ==
    LET z == (ShapeK * (2 * x - d) * One) \div (2 * d)
    IN  Div(One, One + Exp(-z))

\* the envelope of one event over total_days days, index 1 being the event's
\* own day
simulate_dislocation(total_days, drop_frac, drop_days, rec_days, recovery_target) ==
    IF drop_days <= 0 \/ rec_days <= 0 THEN Rep(One, total_days)
    ELSE LET decline_factor ==
                 [x \in 1..drop_days |->
                     One - Mul(drop_frac, Logistic(x - 1, drop_days))]
             start_of_recovery == One - drop_frac
             recovery_range == recovery_target - start_of_recovery
             recovery_factor ==
                 [x \in 1..rec_days |->
                     start_of_recovery + Mul(recovery_range, Logistic(x - 1, rec_days))]
             shock == decline_factor \o recovery_factor
             n == Min(Len(shock), total_days)
         IN  [i \in 1..total_days |-> IF i <= n THEN shock[i] ELSE One]

\* drop fractions: none, and the ends of the minor and major ranges
DropFracs == {0, 200, 350, 400, 600}

\* recovery targets 1 - rec_var, 1 and 1 + rec_var, rec_var = 0.118
RecoveryTargets == {882, 1000, 1118}

FnIdle ==
    /\ fn_pc = "idle"
    /\ fn_args = <<>>
    /\ fn_out = <<>>

DislocationCalls ==
    [fn : {"simulate_dislocation"}, total_days : 1..MaxShockDays,
     drop_frac : DropFracs, drop_days : 0..MaxDeclineDays,
     rec_days : 0..MaxRecoveryDays, recovery_target : RecoveryTargets]

ShockInit ==
    /\ fn_pc = "called"
    /\ fn_args \in DislocationCalls
    /\ fn_out = <<>>

\* one call of simulate_dislocation
ApplyDislocation ==
    /\ UNCHANGED nonFnVars
    /\ fn_pc = "called"
    /\ fn_args.fn = "simulate_dislocation"
    /\ fn_out' = simulate_dislocation(fn_args.total_days, fn_args.drop_frac,
                                      fn_args.drop_days, fn_args.rec_days,
                                      fn_args.recovery_target)
    /\ fn_pc' = "returned"
    /\ UNCHANGED fn_args

(* -------------------------- return capping ---------------------------- *)
\* np.log(1e-9)
LnFloor == -20723

\* np.log(np.maximum(p, 1e-9)); a price of no whole 1 / One is at the floor
SafeLog(p) == IF p <= 0 THEN LnFloor ELSE Ln(p)

\* np.cumsum(capped_log_returns)[:n], the capped log return of day t being
\* (1 / gamma) * np.tanh(gamma * log_returns[t])
RECURSIVE CappedCumSum(_, _, _)
CappedCumSum(prices, gamma, n) ==
    IF n = 0 THEN <<>>
    ELSE LET before == CappedCumSum(prices, gamma, n - 1)
             log_return == SafeLog(prices[n + 1]) - SafeLog(prices[n])
             capped_log_return == Mul(Div(One, gamma), Tanh(Mul(gamma, log_return)))
         IN  Append(before,
                    (IF n = 1 THEN 0 ELSE before[n - 1]) + capped_log_return)

\* lines 56-62, len(prices) >= 1
Capped(prices, gamma) ==
    LET sums == CappedCumSum(prices, gamma, Len(prices) - 1)
    IN  [t \in 1..Len(prices) |->
            IF t = 1 THEN prices[1] ELSE Mul(prices[1], Exp(sums[t - 1]))]

ReturnCappingUnlessZero(prices, gamma) ==
    IF gamma = 0 THEN prices ELSE Capped(prices, gamma)

apply_return_capping(prices, gamma) ==
    IF gamma <= 0 THEN prices ELSE Capped(prices, gamma)

\* prices of a path handed to the filter: none, 0.4, 1.0 and 2.5
CapLevels == {0, 400, 1000, 2500}

\* gamma: -1, 0, 1 and the 13.726 of fixed_params
Gammas == {-1000, 0, 1000, 13726}

CappingCalls ==
    [fn : {"apply_return_capping"},
     prices : UNION { [1..n -> CapLevels] : n \in 1..MaxCapLen },
     gamma : Gammas]

CapInit ==
    /\ fn_pc = "called"
    /\ fn_args \in CappingCalls
    /\ fn_out = <<>>

\* one call of apply_return_capping
ApplyCapping ==
    /\ UNCHANGED nonFnVars
    /\ fn_pc = "called"
    /\ fn_args.fn = "apply_return_capping"
    /\ fn_out' = apply_return_capping(fn_args.prices, fn_args.gamma)
    /\ fn_pc' = "returned"
    /\ UNCHANGED fn_args

(* --------------------------- path generator ---------------------------- *)
\* dt = 1 / 252
Dt == One \div YearDays

\* lines 45-49: X after round i of the loop, z being np.random.randn()
OuStep(X, i, logS0, mu, sigma, kappa, beta, z) ==
    LET t == (i + 1) * Dt
        target_mu_t == logS0 + Mul(mu, t)
        reversion_force == -Mul(Mul(kappa, Tanh(Mul(beta, X - target_mu_t))), Dt)
        random_shock == Mul(Mul(sigma, Sqrt(Dt)), z)
    IN  X + reversion_force + random_shock

GenLoopOneMore(i, n) == i <= n

\* line 44: for i in range(days)
GenLoopContinues(i, n) == i < n

\* the ends of optimization_bounds for mu, sigma and kappa
ProcessParams ==
    { [mu |-> 30, sigma |-> 120, kappa |-> 500],
      [mu |-> 100, sigma |-> 250, kappa |-> 4000] }

\* beta of fixed_params
Beta == 4724

\* draws of np.random.randn(): -1, 0 and 1
Normals == {-1000, 0, 1000}

\* S0: the default 1, and 2
StartPrices == {1000, 2000}

GenIdle ==
    /\ gen_pc = "idle"
    /\ gen_args = <<>>
    /\ log_S0 = 0
    /\ ou_X = 0
    /\ ou_i = 0
    /\ ou_path = <<>>

GenInit ==
    /\ gen_pc = "called"
    /\ gen_args \in [days : 0..MaxHorizon, p : ProcessParams, beta : {Beta},
                      S0 : StartPrices]
    /\ log_S0 = 0
    /\ ou_X = 0
    /\ ou_i = 0
    /\ ou_path = <<>>

\* lines 41-43
GenEnter ==
    /\ UNCHANGED nonGenVars
    /\ gen_pc = "called"
    /\ log_S0' = Ln(gen_args.S0)
    /\ ou_X' = log_S0'
    /\ ou_path' = <<ou_X'>>
    /\ ou_i' = 0
    /\ gen_pc' = "loop"
    /\ UNCHANGED gen_args

\* lines 44-50: one round of the loop
GenStep ==
    /\ UNCHANGED nonGenVars
    /\ gen_pc = "loop"
    /\ GenLoopContinues(ou_i, gen_args.days)
    /\ \E z \in Normals :
        ou_X' = OuStep(ou_X, ou_i, log_S0, gen_args.p.mu, gen_args.p.sigma,
                       gen_args.p.kappa, gen_args.beta, z)
    /\ ou_path' = Append(ou_path, ou_X')
    /\ ou_i' = ou_i + 1
    /\ UNCHANGED <<gen_pc, gen_args, log_S0>>

\* line 51: return np.array(path)
GenReturn ==
    /\ UNCHANGED nonGenVars
    /\ gen_pc = "loop"
    /\ ~GenLoopContinues(ou_i, gen_args.days)
    /\ gen_pc' = "returned"
    /\ UNCHANGED <<gen_args, log_S0, ou_X, ou_i, ou_path>>

(* ----------------------- path statistics calls ------------------------ *)
\* every price path of at most MaxPathLen days over the price levels
PriceLevels == 1..MaxPrice

PathsOfLen(lo, hi) == UNION { [1..n -> PriceLevels] : n \in lo..hi }

\* half a trading day, and every whole number of days up to one more than
\* the longest path
Periods ==
    { [num |-> 1, den |-> 2 * YearDays] } \cup
    { [num |-> n, den |-> YearDays] : n \in 1..(MaxPathLen + 1) }

LostPeriodCalls ==
    [fn : {"count_lost_periods"}, prices : PathsOfLen(0, MaxPathLen),
     period_length_years : Periods]

MaxDropCalls == [fn : {"max_drop"}, prices : PathsOfLen(1, MaxPathLen)]

StatsInit ==
    /\ fn_pc = "called"
    /\ fn_args \in LostPeriodCalls \cup MaxDropCalls
    /\ fn_out = <<>>

\* one call of count_lost_periods
ApplyLostPeriods ==
    /\ UNCHANGED nonFnVars
    /\ fn_pc = "called"
    /\ fn_args.fn = "count_lost_periods"
    /\ fn_out' = count_lost_periods(fn_args.prices, fn_args.period_length_years)
    /\ fn_pc' = "returned"
    /\ UNCHANGED fn_args

\* max_drop = 1 - np.min(final_prices / np.maximum.accumulate(final_prices))
ApplyMaxDrop ==
    /\ UNCHANGED nonFnVars
    /\ fn_pc = "called"
    /\ fn_args.fn = "max_drop"
    /\ fn_out' = MaxDrop(fn_args.prices)
    /\ fn_pc' = "returned"
    /\ UNCHANGED fn_args

(* ------------------------ lost-period scan ----------------------------- *)
\* rounds of the while loop after which a scan is left alone: more than any
\* path has days
MaxScanIters == MaxPathLen + 2

ScanAdvanceStays(i, P, lost) == IF lost THEN i + P ELSE i

\* lines 110-114: i += period_length_days after a lost period, i += 1 otherwise
ScanAdvance(i, P, lost) == IF lost THEN i + P ELSE i + 1

ScanIdle ==
    /\ scan_pc = "idle"
    /\ scan_args = <<>>
    /\ period_length_days = 0
    /\ scan_i = 0
    /\ scan_count = 0
    /\ scan_iters = 0

ScanInit ==
    /\ scan_pc = "called"
    /\ scan_args \in [prices : PathsOfLen(0, MaxPathLen), period_length_years : Periods]
    /\ period_length_days = 0
    /\ scan_i = 0
    /\ scan_count = 0
    /\ scan_iters = 0

\* lines 100-104: the period in days, the early return and the loop's start
ScanEnter ==
    /\ UNCHANGED nonScanVars
    /\ scan_pc = "called"
    /\ period_length_days' = PeriodDays(scan_args.period_length_years)
    /\ scan_pc' = IF Len(scan_args.prices) < period_length_days'
                  THEN "returned" ELSE "loop"
    /\ scan_i' = 0
    /\ scan_count' = 0
    /\ UNCHANGED <<scan_args, scan_iters>>

\* lines 105-114: one round of the while loop; highs[i] raises IndexError
\* when i is len(prices)
ScanStep ==
    /\ UNCHANGED nonScanVars
    /\ scan_pc = "loop"
    /\ scan_i <= Len(scan_args.prices) - period_length_days
    /\ scan_iters < MaxScanIters
    /\ scan_iters' = scan_iters + 1
    /\ IF scan_i >= Len(scan_args.prices)
       THEN /\ scan_pc' = "IndexError"
            /\ UNCHANGED <<scan_i, scan_count>>
       ELSE LET peak == RunMax(scan_args.prices, scan_i + 1)
                lost == /\ scan_args.prices[scan_i + 1] < peak
                        /\ \A u \in (scan_i + 1)..(scan_i + period_length_days) :
                               scan_args.prices[u] < peak
            IN  /\ scan_count' = IF lost THEN scan_count + 1 ELSE scan_count
                /\ scan_i' = ScanAdvance(scan_i, period_length_days, lost)
                /\ UNCHANGED scan_pc
    /\ UNCHANGED <<scan_args, period_length_days>>

\* line 115: the loop condition fails and count is returned
ScanReturn ==
    /\ UNCHANGED nonScanVars
    /\ scan_pc = "loop"
    /\ scan_i > Len(scan_args.prices) - period_length_days
    /\ scan_pc' = "returned"
    /\ UNCHANGED <<scan_args, period_length_days, scan_i, scan_count, scan_iters>>

(* -------------------------- shock composer ----------------------------- *)
\* gamma and rec_var of fixed_params
Gamma == 13726
RecVar == 118

\* threshold=0.5, cap=0.65, alpha=70
DampThreshold == 500
DampCap == 650
DampAlpha == 70

apply_tanh_damping(drop_frac, current_drawdown) ==
    IF current_drawdown < DampThreshold THEN drop_frac
    ELSE IF current_drawdown >= DampCap THEN 0
    ELSE Mul(Mul(drop_frac, One \div 2),
             One - Tanh(DampAlpha * (current_drawdown - DampThreshold)))

\* the four copies of the pipeline: the calibration objective and the
\* library generation of final_library_generator.py, the calibration
\* objective of optimized_search_parameters.py and the report of
\* long_term_path_simulator.py
Undamped == {"run_single_path_for_objective", "generate_final_statistics_library"}
Damped == {"objective_function", "run_and_report_simulation"}
Pipelines == Undamped \cup Damped

\* the pipelines that calibrate or generate the library
CalibrationOrLibrary == Undamped \cup {"objective_function"}

\* a duration drawn in days, in whole days of the model's scale
CeilScale(d) == CeilDiv(d * YearDays, TradingDays)

\* lines 137-140: the draws of one event, at the low and at the high end of
\* their ranges
EventDraws(typ) ==
    IF typ = "minor"
    THEN { [drop |-> 200, d_days |-> CeilScale(20), r_days |-> CeilScale(300),
            rec_target |-> One - RecVar],
           [drop |-> 349, d_days |-> CeilScale(69), r_days |-> CeilScale(999),
            rec_target |-> One + RecVar] }
    ELSE { [drop |-> 400, d_days |-> CeilScale(40), r_days |-> CeilScale(1000),
            rec_target |-> One - RecVar],
           [drop |-> 599, d_days |-> CeilScale(119), r_days |-> CeilScale(2499),
            rec_target |-> One + RecVar] }

\* the draw of np.random.randn() in round i that puts X on its target
OnTargetDraw(X, i, p) ==
    LET ahead == OuStep(X, i, Ln(One), p.mu, p.sigma, p.kappa, Beta, 0)
        target_mu_t == Ln(One) + Mul(p.mu, (i + 1) * Dt)
    IN  Div(target_mu_t - ahead, Mul(p.sigma, Sqrt(Dt)))

\* two streams of np.random.randn(): the one that keeps X on its target, and
\* the one that lies two standard normal units above it in the second round
\* of the loop
NormalStreams == {"on target", "one rally"}

StreamDraw(stream, X, i, p) ==
    OnTargetDraw(X, i, p) + (IF stream = "one rally" /\ i = 1 THEN 2 * One ELSE 0)

\* generate_tanh_ou_path(n, mu, sigma, kappa, beta) under a stream of draws
RECURSIVE OuPath(_, _, _)
OuPath(n, p, stream) ==
    IF n = 0 THEN <<Ln(One)>>
    ELSE LET before == OuPath(n - 1, p, stream)
         IN  Append(before,
                    OuStep(before[n], n - 1, Ln(One), p.mu, p.sigma, p.kappa,
                           Beta, StreamDraw(stream, before[n], n - 1, p)))

\* lines 126-127: base_price_path = np.exp(ou_path)
BasePricePaths ==
    { LET log_path == OuPath(Years * YearDays, ps[1], ps[2])
      IN  [t \in 1..(Years * YearDays + 1) |-> Exp(log_path[t])] :
        ps \in ProcessParams \X NormalStreams }

\* the days on which the scheduler's stream fires in a composed run: day 0,
\* the first day of the guaranteed window and the last day
FiringDays == {0, ScaleDays(GuaranteedFromYears * TradingDays), Years * YearDays - 1}

CmpIdle ==
    /\ cmp_variant = "none"
    /\ base_price_path = <<>>
    /\ cumulative_shock = <<>>
    /\ peak_price = 0
    /\ cmp_next = 0
    /\ cmp_drops = <<>>
    /\ path_final_prices = <<>>

\* lines 126-127 done: the base path of one pipeline run is generated
CmpInit ==
    /\ cmp_variant \in Pipelines
    /\ base_price_path \in BasePricePaths
    /\ cumulative_shock = <<>>
    /\ peak_price = 0
    /\ cmp_next = 0
    /\ cmp_drops = <<>>
    /\ path_final_prices = <<>>

CmpCall == PipeCall

\* a day of the scheduler under a stream that fires on the firing days only
CmpSchedDay ==
    /\ PipeSchedDay
    /\ \A e \in Range(events') : e.day \in FiringDays

CmpSchedReturn == PipeSchedReturn

CmpInject == PipeInject

\* line 134, and peak_price = base_price_path[0] in the damped copies
ComposeEnter ==
    /\ UNCHANGED <<nonCmpVars, schVars>>
    /\ pipe_pc = "compose"
    /\ cumulative_shock' = Rep(One, Years * YearDays + 1)
    /\ peak_price' = base_price_path[1]
    /\ cmp_next' = 1
    /\ pipe_pc' = "events"
    /\ UNCHANGED <<guaranteed_crisis_day, pipe_events, cmp_variant,
                   base_price_path, cmp_drops, path_final_prices>>

\* optimized_search_parameters.py lines 132-134, long_term_path_simulator.py
\* lines 169-171, for the event the loop is at: the price before its shock,
\* the peak and the drawdown
price_before_shock ==
    Mul(base_price_path[pipe_events[cmp_next].day + 1],
        cumulative_shock[pipe_events[cmp_next].day + 1])

new_peak_price == Max({peak_price, price_before_shock})

current_dd == One - Div(price_before_shock, new_peak_price)

\* lines 135-142 (undamped), optimized_search_parameters.py lines 131-145
\* (damped): one event is composed
ComposeEvent ==
    /\ UNCHANGED <<nonCmpVars, schVars>>
    /\ pipe_pc = "events"
    /\ cmp_next <= Len(pipe_events)
    /\ LET t == pipe_events[cmp_next].day
           peak == new_peak_price
       IN  \E draw \in EventDraws(pipe_events[cmp_next].typ) :
             LET passed == IF cmp_variant \in Damped
                           THEN apply_tanh_damping(draw.drop, current_dd)
                           ELSE draw.drop
                 dislocation ==
                     simulate_dislocation(Years * YearDays + 1 - t, passed,
                                          draw.d_days, draw.r_days, draw.rec_target)
             IN  /\ cumulative_shock' =
                        [u \in 1..Len(cumulative_shock) |->
                            IF u >= t + 1
                            THEN Mul(cumulative_shock[u], dislocation[u - t])
                            ELSE cumulative_shock[u]]
                 /\ peak_price' = IF cmp_variant \in Damped THEN peak ELSE peak_price
                 /\ cmp_drops' = Append(cmp_drops, [drawn |-> draw.drop, passed |-> passed])
    /\ cmp_next' = cmp_next + 1
    /\ UNCHANGED <<pipe_pc, guaranteed_crisis_day, pipe_events, cmp_variant,
                   base_price_path, path_final_prices>>

\* lines 143-144: raw_prices and the return capping
ComposeFinish ==
    /\ UNCHANGED <<nonCmpVars, schVars>>
    /\ pipe_pc = "events"
    /\ cmp_next > Len(pipe_events)
    /\ LET raw_prices == [u \in 1..Len(base_price_path) |->
                             Mul(base_price_path[u], cumulative_shock[u])]
       IN  path_final_prices' = apply_return_capping(raw_prices, Gamma)
    /\ pipe_pc' = "done"
    /\ UNCHANGED <<guaranteed_crisis_day, pipe_events, cmp_variant,
                   base_price_path, cumulative_shock, peak_price, cmp_next, cmp_drops>>

(* ---------------------- auxiliary parameters --------------------------- *)
\* minor_yrs and major_yrs of fixed_params
MinorYrs == 14338
MajorYrs == 33129

\* what a caller may hand over as minor_yrs or major_yrs: nothing (the empty
\* tuple), zero, or one of the values of fixed_params
Missing == <<>>
RecurrenceYears == {Missing, <<0>>, <<MinorYrs>>, <<MajorYrs>>}

\* the pipelines that take their parameters as a list and unpack it, and the
\* one that takes a dict
ListPipelines ==
    {"run_single_path_for_objective", "objective_function",
     "generate_final_statistics_library"}
DictPipelines == {"run_and_report_simulation"}

NoRates == [minor |-> <<>>, major |-> <<>>]

\* 1 / (yrs * 252) as a fraction, yrs # 0
DailyRate(yrs) == [num |-> One, den |-> yrs[1] * TradingDays]

\* what 1 / (params[name] * 252) raises, if anything
RateError(yrs) ==
    IF yrs = Missing THEN "KeyError"
    ELSE IF yrs[1] = 0 THEN "ZeroDivisionError"
    ELSE "none"

CfgIdle ==
    /\ cfg_pc = "idle"
    /\ cfg_variant = "none"
    /\ cfg_params = <<>>
    /\ cfg_rates = NoRates
    /\ cfg_error = "none"
    /\ cfg_generated = 0

\* a pipeline is entered for its first path with parameters of the caller's
\* choice
CfgInit ==
    /\ cfg_pc = "called"
    /\ cfg_variant \in ListPipelines \cup DictPipelines
    /\ cfg_params \in [minor_yrs : RecurrenceYears, major_yrs : RecurrenceYears]
    /\ cfg_rates = NoRates
    /\ cfg_error = "none"
    /\ cfg_generated = 0

\* line 123: mu, sigma, ..., seed = args; a list that lacks a value does not
\* unpack. The dict of run_and_report_simulation is not looked at yet.
CfgUnpack ==
    /\ UNCHANGED nonCfgVars
    /\ cfg_pc = "called"
    /\ IF cfg_variant \in ListPipelines
          /\ Missing \in {cfg_params.minor_yrs, cfg_params.major_yrs}
       THEN cfg_pc' = "raised" /\ cfg_error' = "ValueError"
       ELSE cfg_pc' = "unpacked" /\ UNCHANGED cfg_error
    /\ UNCHANGED <<cfg_variant, cfg_params, cfg_rates, cfg_generated>>

\* line 126: ou_path = generate_tanh_ou_path(...), the simulation of the path
\* has begun
CfgGenerate ==
    /\ UNCHANGED nonCfgVars
    /\ cfg_pc = "unpacked"
    /\ cfg_generated' = cfg_generated + 1
    /\ cfg_pc' = "generated"
    /\ UNCHANGED <<cfg_variant, cfg_params, cfg_rates, cfg_error>>

\* lines 128-129: base_minor_rate, then base_major_rate
CfgRates ==
    /\ UNCHANGED nonCfgVars
    /\ cfg_pc = "generated"
    /\ IF RateError(cfg_params.minor_yrs) # "none"
       THEN /\ cfg_pc' = "raised"
            /\ cfg_error' = RateError(cfg_params.minor_yrs)
            /\ UNCHANGED cfg_rates
       ELSE IF RateError(cfg_params.major_yrs) # "none"
       THEN /\ cfg_pc' = "raised"
            /\ cfg_error' = RateError(cfg_params.major_yrs)
            /\ UNCHANGED cfg_rates
       ELSE /\ cfg_pc' = "rates"
            /\ cfg_rates' = [minor |-> DailyRate(cfg_params.minor_yrs),
                             major |-> DailyRate(cfg_params.major_yrs)]
            /\ UNCHANGED cfg_error
    /\ UNCHANGED <<cfg_variant, cfg_params, cfg_generated>>

(* --------------------------- random streams ---------------------------- *)
\* the state of the global generator after one draw
RngNext(s) == (5 * s + 3) % RngMod

\* np.random.seed(seed)
SeedState(seed) == seed % RngMod

RECURSIVE Advance(_, _)
Advance(s, n) == IF n = 0 THEN s ELSE Advance(RngNext(s), n - 1)

\* the values of the n draws made from state s on
DrawsFrom(s, n) == [j \in 1..n |-> Advance(s, j)]

\* np.random.rand() of a state, as a numerator over RateDen
Uniform(s) == s % RateDen

\* generate_clustered_crisis_events from day d on, its draws taken from the
\* generator in state s: the events and the state it leaves
RECURSIVE SchedRun(_, _, _, _, _, _)
SchedRun(d, s, evs, minor_until, major_until, cooldown_until) ==
    IF d = RngDays THEN [events |-> Sorted(evs), state |-> s]
    ELSE LET s1 == RngNext(s)
             s2 == RngNext(s1)
             cooling == d < cooldown_until
             fire_minor == Fires(Uniform(s1),
                                 RateToday(PipeRates.minor, PipeRates.k,
                                           d < minor_until, cooling, FALSE))
             fire_major == Fires(Uniform(s2),
                                 RateToday(PipeRates.major, PipeRates.k,
                                           d < major_until, cooling, TRUE))
             after_minor == IF fire_minor
                            THEN Append(evs, [day |-> d, typ |-> "minor"])
                            ELSE evs
             after_major == IF fire_major
                            THEN Append(after_minor, [day |-> d, typ |-> "major"])
                            ELSE after_minor
         IN  SchedRun(d + 1, s2, after_major,
                      IF fire_minor THEN d + ScaleDays(DefaultBoostPeriod)
                      ELSE minor_until,
                      IF fire_major THEN d + ScaleDays(DefaultBoostPeriod)
                      ELSE major_until,
                      IF fire_major THEN d + ScaleDays(DefaultCooldownPeriod)
                      ELSE cooldown_until)

\* lines 126-142: the draws of one path simulation that starts with the
\* generator in state s0: one normal a day, two uniforms a day in the
\* scheduler, the guaranteed day, and four draws for every event
PathSimulation(s0) ==
    LET generated == Advance(s0, RngDays)
        scheduled == SchedRun(0, generated, <<>>, -1, -1, -1)
        g == ScaleDays(GuaranteedFromYears * TradingDays)
                 + (RngNext(scheduled.state) % Cardinality(GuaranteedDays))
        evs == InjectGuaranteed(scheduled.events, g)
        n == 3 * RngDays + 1 + 4 * Len(evs)
    IN  [events |-> evs, draws |-> DrawsFrom(s0, n), left |-> Advance(s0, n)]

\* the objective of final_library_generator.py draws a seed for every path
\* and run_single_path_for_objective seeds the generator with it; the
\* objective of optimized_search_parameters.py and the library generation
\* draw from the generator as they find it
SeedingBatch == {"final_library_generator.objective_function"}
InlineBatch ==
    {"optimized_search_parameters.objective_function",
     "generate_final_statistics_library"}
DirectCaller == "caller of run_single_path_for_objective"

\* the seeds a direct caller passes
Seeds == {0, 1}

EntryStateUnseeded(found, seed) == found

\* line 124: np.random.seed(seed)
EntryState(found, seed) == SeedState(seed)

\* the record of a path simulation: the seed it was given, if any, the state
\* it found the generator in, the path simulations that state of the
\* generator it drew from depends on, and what it drew
PathRun(fn, seed, found, entry, from_others) ==
    LET sim == PathSimulation(entry)
    IN  [fn |-> fn, seed |-> seed, found |-> found, from_others |-> from_others,
         events |-> sim.events, draws |-> sim.draws, left |-> sim.left]

RngIdle ==
    /\ rng_caller = "none"
    /\ rng_state = 0
    /\ rng_taint = {}
    /\ path_runs = <<>>

\* a process whose generator is in any state, before its first path
RngInit ==
    /\ rng_caller \in SeedingBatch \cup InlineBatch \cup {DirectCaller}
    /\ rng_state \in 0..(RngMod - 1)
    /\ rng_taint = {}
    /\ path_runs = <<>>

\* lines 153-157: one round of the objective's loop; np.random.randint(1e6)
\* is drawn from the generator as the path before left it, and the path is
\* simulated with that seed
ObjectivePath ==
    /\ UNCHANGED nonRngVars
    /\ rng_caller \in SeedingBatch
    /\ Len(path_runs) < MaxPathRuns
    /\ LET found == RngNext(rng_state)
           run == PathRun("run_single_path_for_objective", <<found>>, found,
                          EntryState(found, found), rng_taint)
       IN  /\ path_runs' = Append(path_runs, run)
           /\ rng_state' = run.left
           /\ rng_taint' = rng_taint \cup {Len(path_runs) + 1}
    /\ UNCHANGED rng_caller

\* optimized_search_parameters.py lines 115-145, final_library_generator.py
\* lines 216-234: one round of a loop that simulates the path in place
InlinePath ==
    /\ UNCHANGED nonRngVars
    /\ rng_caller \in InlineBatch
    /\ Len(path_runs) < MaxPathRuns
    /\ LET run == PathRun(rng_caller, <<>>, rng_state, rng_state, rng_taint)
       IN  /\ path_runs' = Append(path_runs, run)
           /\ rng_state' = run.left
           /\ rng_taint' = rng_taint \cup {Len(path_runs) + 1}
    /\ UNCHANGED rng_caller

\* lines 121-145: run_single_path_for_objective called with a seed of the
\* caller's choice
CallSinglePath ==
    /\ UNCHANGED nonRngVars
    /\ rng_caller = DirectCaller
    /\ Len(path_runs) < MaxPathRuns
    /\ \E seed \in Seeds :
        LET run == PathRun("run_single_path_for_objective", <<seed>>, rng_state,
                           EntryState(rng_state, seed), {})
        IN  /\ path_runs' = Append(path_runs, run)
            /\ rng_state' = run.left
            /\ rng_taint' = {Len(path_runs) + 1}
    /\ UNCHANGED rng_caller

\* other code of the process draws from the generator between two calls
OtherDraw ==
    /\ UNCHANGED nonRngVars
    /\ rng_caller = DirectCaller
    /\ rng_state' = RngNext(rng_state)
    /\ UNCHANGED <<rng_caller, rng_taint, path_runs>>

(* --------------------------- specifications ---------------------------- *)
\* one calibrator process, run after run, never interrupted
NextSeq == Run(1)

InitSeq == CalInit /\ LibIdle /\ SchedIdle /\ PipeIdle /\ FnIdle /\ GenIdle /\ CmpIdle /\ ScanIdle /\ CfgIdle /\ RngIdle

SpecSeq == InitSeq /\ [][NextSeq]_vars

\* one calibrator process that may be interrupted, or fail to write, anywhere
NextCrash == Run(1) \/ Kill(1) \/ WriteFails(1)

InitCrash == CalInit /\ LibIdle /\ SchedIdle /\ PipeIdle /\ FnIdle /\ GenIdle /\ CmpIdle /\ ScanIdle /\ CfgIdle /\ RngIdle

SpecCrash == InitCrash /\ [][NextCrash]_vars

\* two calibrator processes, one run each, on the same file, their steps
\* interleaved
NextConc ==
    \E p \in Procs :
        \/ /\ pc[p] = "idle"
           /\ Start(p)
           /\ Len(target_scenarios'[p]) <= MaxConcTargets
        \/ Continue(p)

InitConc == CalInit /\ LibIdle /\ SchedIdle /\ PipeIdle /\ FnIdle /\ GenIdle /\ CmpIdle /\ ScanIdle /\ CfgIdle /\ RngIdle

SpecConc == InitConc /\ [][NextConc]_vars

\* the library builder, called and called again after an interruption
NextLib == LibCall \/ SimulatePath \/ FinishScenario \/ LibInterrupt

InitLib == CalInit /\ LibInit /\ SchedIdle /\ PipeIdle /\ FnIdle /\ GenIdle /\ CmpIdle /\ ScanIdle /\ CfgIdle /\ RngIdle

SpecLib == InitLib /\ [][NextLib]_vars

\* one scheduler call with free arguments
NextSched ==
    \/ SchedDay /\ UNCHANGED nonSchVars
    \/ SchedReturn /\ UNCHANGED nonSchVars

InitSched == CalInit /\ LibIdle /\ SchedInit /\ PipeIdle /\ FnIdle /\ GenIdle /\ CmpIdle /\ ScanIdle /\ CfgIdle /\ RngIdle

SpecSched == InitSched /\ [][NextSched]_vars

\* one path of a pipeline up to the composer loop
NextPipe == PipeCall \/ PipeSchedDay \/ PipeSchedReturn \/ PipeInject

InitPipe == CalInit /\ LibIdle /\ SchedIdle /\ PipeIdle /\ FnIdle /\ GenIdle /\ CmpIdle /\ ScanIdle /\ CfgIdle /\ RngIdle

SpecPipe == InitPipe /\ [][NextPipe]_vars

\* one call of the envelope builder with free arguments
NextShock == ApplyDislocation

InitShock == CalInit /\ LibIdle /\ SchedIdle /\ PipeIdle /\ ShockInit /\ GenIdle /\ CmpIdle /\ ScanIdle /\ CfgIdle /\ RngIdle

SpecShock == InitShock /\ [][NextShock]_vars

\* one call of a path statistic with free arguments
NextStats == ApplyLostPeriods \/ ApplyMaxDrop

InitStats == CalInit /\ LibIdle /\ SchedIdle /\ PipeIdle /\ StatsInit /\ GenIdle /\ CmpIdle /\ ScanIdle /\ CfgIdle /\ RngIdle

SpecStats == InitStats /\ [][NextStats]_vars

\* one call of the return capping filter with free arguments
NextCap == ApplyCapping

InitCap == CalInit /\ LibIdle /\ SchedIdle /\ PipeIdle /\ CapInit /\ GenIdle /\ CmpIdle /\ ScanIdle /\ CfgIdle /\ RngIdle

SpecCap == InitCap /\ [][NextCap]_vars

\* one call of the path generator with free arguments
NextGen == GenEnter \/ GenStep \/ GenReturn

InitGen == CalInit /\ LibIdle /\ SchedIdle /\ PipeIdle /\ FnIdle /\ GenInit /\ CmpIdle /\ ScanIdle /\ CfgIdle /\ RngIdle

SpecGen == InitGen /\ [][NextGen]_vars

\* one call of count_lost_periods with free arguments, step by step; the
\* loop is sequential code that keeps running
NextScan == ScanEnter \/ ScanStep \/ ScanReturn

InitScan == CalInit /\ LibIdle /\ SchedIdle /\ PipeIdle /\ FnIdle /\ GenIdle /\ CmpIdle /\ ScanInit /\ CfgIdle /\ RngIdle

SpecScan == InitScan /\ [][NextScan]_vars /\ WF_vars(NextScan)

\* the entry of a pipeline with auxiliary parameters of the caller's choice
NextConfig == CfgUnpack \/ CfgGenerate \/ CfgRates

InitConfig == CalInit /\ LibIdle /\ SchedIdle /\ PipeIdle /\ FnIdle /\ GenIdle /\ CmpIdle /\ ScanIdle /\ CfgInit /\ RngIdle

SpecConfig == InitConfig /\ [][NextConfig]_vars

\* the path simulations of one process and the generator they draw from
NextRng == ObjectivePath \/ InlinePath \/ CallSinglePath \/ OtherDraw

InitRng == CalInit /\ LibIdle /\ SchedIdle /\ PipeIdle /\ FnIdle /\ GenIdle /\ CmpIdle /\ ScanIdle /\ CfgIdle /\ RngInit

SpecRng == InitRng /\ [][NextRng]_vars

\* one path of a pipeline from the generated base path to the final prices
NextCompose ==
    \/ CmpCall
    \/ CmpSchedDay
    \/ CmpSchedReturn
    \/ CmpInject
    \/ ComposeEnter
    \/ ComposeEvent
    \/ ComposeFinish

InitCompose ==
    CalInit /\ LibIdle /\ SchedIdle /\ PipeIdle /\ FnIdle /\ GenIdle /\ CmpInit /\ ScanIdle /\ CfgIdle /\ RngIdle

SpecCompose == InitCompose /\ [][NextCompose]_vars

(* ------------------------ calibrator: claims --------------------------- *)
\* rows r1 and r2 carry the same key within the isclose tolerance
SameKey(r1, r2) ==
    \/ /\ IsClose(r1.target_mean, r2.target_mean)
       /\ IsClose(r1.target_spread, r2.target_spread)
    \/ /\ IsClose(r2.target_mean, r1.target_mean)
       /\ IsClose(r2.target_spread, r1.target_spread)

IsPrefix(s, t) == Len(s) <= Len(t) /\ \A i \in 1..Len(s) : s[i] = t[i]

\* C1: a run that repeats the target list of the run that has just returned,
\* on the file that run left, returns at once: it calls the optimizer zero
\* times, writes nothing and leaves the file as it found it.
C1_IdempotentResume ==
    \A p \in Procs :
        resumed[p] =>
            /\ pc[p] = "returned"
            /\ solver_calls[p] = 0
            /\ flushes[p] = 0
            /\ file = file_at_start[p]

\* a second run on a two-scenario list whose rows the first run appended
C1_Witness ==
    /\ resumed[1]
    /\ pc[1] = "returned"
    /\ Len(target_scenarios[1]) = 2
    /\ target_scenarios[1][1] # target_scenarios[1][2]
    /\ Len(file.rows) = 2

\* C2: once a process has been interrupted, or a write has failed, every row
\* that the latest completed to_csv had persisted is still in the file, in
\* place, and the file is readable.
C2_FlushedRowsSurviveCrash ==
    \A p \in Procs :
        pc[p] \in {"killed", "raised"} =>
            /\ IsPrefix(persisted, file.rows)
            /\ (persisted # <<>> => file.header)

\* C3: the persisted table never holds two rows whose keys are equal within
\* the tolerance.
C3_UniqueKeys ==
    \A i, j \in 1..Len(file.rows) :
        i # j => ~SameKey(file.rows[i], file.rows[j])

\* C4: while no to_csv is running, every row a process has flushed is in the
\* file: no flush of another process has removed or replaced it.
C4_NoFlushedRowLost ==
    (\A p \in Procs : pc[p] \notin InToCsv) =>
        \A p \in Procs : flushed[p] \subseteq Range(file.rows)

\* C5: a completed to_csv leaves the rows the table held before it unchanged
\* and in order, and adds exactly one row, at the end, for the scenario whose
\* optimization has just completed.
C5_AppendOnly ==
    \A p \in Procs :
        pc[p] = "saved" =>
            LET before == rows_before_flush[p]
                s == scenarios_to_run[p][scenario_idx[p]]
            IN  /\ Len(file.rows) = Len(before) + 1
                /\ IsPrefix(before, file.rows)
                /\ file.rows[Len(file.rows)].target_mean = s.mean
                /\ file.rows[Len(file.rows)].target_spread = s.spread

\* the second flush of a run that found a row in the table
C5_Witness ==
    /\ pc[1] = "saved"
    /\ Len(file_at_start[1].rows) >= 1
    /\ scenario_idx[1] = 2
    /\ Len(file.rows) >= 3

\* C22: whatever convergence status the optimizer reports for a scenario,
\* the calibrator appends one row holding result.x for it and flushes the
\* table, and it calls the optimizer once per scenario.
C22_BestFoundAlwaysAccepted ==
    \A p \in Procs :
        /\ pc[p] = "optimize" => solver_calls[p] = scenario_idx[p] - 1
        /\ pc[p] \in InToCsv \cup {"saved"} =>
               /\ solver_calls[p] = scenario_idx[p]
               /\ Len(param_library_df[p])
                      = Len(ReadRows(file_at_start[p])) + scenario_idx[p]
               /\ param_library_df[p][Len(param_library_df[p])]
                      = NewRow(scenarios_to_run[p][scenario_idx[p]], result[p].x)
        /\ pc[p] = "saved" =>
               /\ flushes[p] = scenario_idx[p]
               /\ file.rows = param_library_df[p]
        /\ (pc[p] = "returned" /\ scenarios_to_run[p] # <<>>) =>
               /\ solver_calls[p] = Len(scenarios_to_run[p])
               /\ flushes[p] = Len(scenarios_to_run[p])

\* the optimizer did not converge for the second scenario of a run, and the
\* row of that scenario is in the file
C22_Witness ==
    /\ pc[1] = "saved"
    /\ scenario_idx[1] = 2
    /\ ~result[1].success
    /\ file.rows[Len(file.rows)]
           = NewRow(scenarios_to_run[1][2], result[1].x)

\* C21: with minor_yrs or major_yrs zero or missing no path is generated and
\* the pipeline fails with a configuration error, not with a raw exception.
C21_MalformedParamsRejected ==
    (cfg_pc \notin {"idle", "called"}
        /\ \E y \in {cfg_params.minor_yrs, cfg_params.major_yrs} :
               y \in {Missing, <<0>>}) =>
        /\ cfg_pc = "raised"
        /\ cfg_error = "ConfigurationError"
        /\ cfg_generated = 0

\* C23: no path simulation of an objective batch or of a library scenario
\* draws from a generator state that depends on what another path
\* simulation drew.
C23_OwnRandomStream ==
    rng_caller \in SeedingBatch \cup InlineBatch =>
        \A n \in 1..Len(path_runs) : path_runs[n].from_others = {}

\* C24: two calls of run_single_path_for_objective with the same seed make
\* the same draws and compose the same events, whatever state they found the
\* generator in.
C24_SameSeedSameResult ==
    \A a, b \in 1..Len(path_runs) :
        (/\ path_runs[a].fn = "run_single_path_for_objective"
         /\ path_runs[b].fn = "run_single_path_for_objective"
         /\ path_runs[a].seed = path_runs[b].seed) =>
            /\ path_runs[a].draws = path_runs[b].draws
            /\ path_runs[a].events = path_runs[b].events

\* two calls with the same seed that found the generator in different
\* states, neither of them the seeded state
C24_Witness ==
    /\ rng_caller = DirectCaller
    /\ Len(path_runs) = 2
    /\ path_runs[1].seed = path_runs[2].seed
    /\ path_runs[1].found # path_runs[2].found
    /\ path_runs[2].found # path_runs[1].left
    /\ path_runs[1].found # SeedState(path_runs[1].seed[1])
    /\ path_runs[2].found # SeedState(path_runs[2].seed[1])
    /\ path_runs[1].draws = path_runs[2].draws

(* --------------------- library builder: claims ------------------------- *)
RECURSIVE SumSeq(_)
SumSeq(q) == IF q = <<>> THEN 0 ELSE Head(q) + SumSeq(Tail(q))

\* C6: every row of the table under construction, so every row returned, has
\* max_drop <= 0.75 and lost_decades <= 2.
C6_AcceptanceFilter ==
    \A k \in 1..Len(final_stats) :
        /\ DropWithinLimit(final_stats[k].max_drop)
        /\ final_stats[k].lost_decades <= MaxLostDecades

\* a returned table with a row exactly on both limits, from a call that also
\* rejected a path
C6_Witness ==
    /\ lib_pc = "returned"
    /\ \E k \in 1..Len(final_stats) :
        /\ final_stats[k].max_drop.num * MaxDropDen = MaxDropNum * final_stats[k].max_drop.den
        /\ final_stats[k].lost_decades = MaxLostDecades
    /\ \E r \in 1..Len(param_df) : accepted[r] < simulated[r]

\* C7: no row ever gets more simulations than its quota
\* ceil(total_library_size / len(param_df)); when the call returns, every row
\* got exactly the quota (none for a quota below 1), each row's output rows
\* are its accepted paths, at most the quota, and all rows were processed.
C7_NoRetryToReplace ==
    LET n == Len(param_df)
        quota == IF n = 0 THEN 0 ELSE CeilDiv(total_library_size, n)
    IN  /\ \A r \in 1..n : simulated[r] <= quota
        /\ lib_pc = "returned" =>
            /\ \A r \in 1..n :
                /\ simulated[r] = quota
                /\ out_rows[r] = accepted[r]
                /\ out_rows[r] <= quota
            /\ Len(final_stats) = SumSeq(out_rows)

\* a returned call whose first scenario had all its paths rejected and whose
\* second scenario still produced rows
C7_Witness ==
    /\ lib_pc = "returned"
    /\ Len(param_df) >= 2
    /\ simulated[1] >= 2
    /\ accepted[1] = 0
    /\ out_rows[2] >= 1

NoEventInCooldown(evs) ==
    \A i, j \in 1..Len(evs) :
        evs[i].typ = "major" =>
            ~(evs[i].day < evs[j].day /\ evs[j].day < evs[i].day + cooldown_period)

\* C9: for every major event fired on day d the event list holds no event of
\* either class on a day strictly between d and d + cooldown_period.
C9_CooldownSuppression ==
    /\ NoEventInCooldown(events)
    /\ NoEventInCooldown(sched_result)

\* a returned list with a major event, a cooldown of at least two days in
\* which a draw would have fired, and an event once the cooldown was over
C9_Witness ==
    /\ sch_pc = "returned"
    /\ suppressed
    /\ cooldown_period >= 2
    /\ \E i, j \in 1..Len(sched_result) :
        /\ sched_result[i].typ = "major"
        /\ sched_result[j].day >= sched_result[i].day + cooldown_period

\* C10: the event list handed to the composer holds a minor event on a day
\* of the first five years after the first (252 <= d <= 1259 in the code).
C10_GuaranteedEarlyShock ==
    pipe_pc = "compose" =>
        \E i \in 1..Len(pipe_events) :
            /\ pipe_events[i].typ = "minor"
            /\ ScaleDays(GuaranteedFromYears * TradingDays) <= pipe_events[i].day
            /\ pipe_events[i].day <= ScaleDays(GuaranteedToYears * TradingDays) - 1

\* the scheduler fired a major event and no minor one: the only minor event
\* of the list is the injected one
C10_Witness ==
    /\ pipe_pc = "compose"
    /\ Len(sched_result) = 1
    /\ sched_result[1].typ = "major"
    /\ Len(pipe_events) = 2

SortedNoDuplicate(evs) ==
    \A i, j \in 1..Len(evs) :
        i < j => evs[i].day <= evs[j].day /\ evs[i] # evs[j]

\* C11: the list the scheduler returns and the list the composer consumes are
\* sorted by day and hold no (day, class) pair twice.
C11_SortedDeduplicated ==
    /\ SortedNoDuplicate(sched_result)
    /\ pipe_pc = "compose" => SortedNoDuplicate(pipe_events)

\* the guaranteed minor event was injected on a day on which the scheduler
\* had fired a minor event, and the composer's list holds it once
C11_Witness ==
    /\ pipe_pc = "compose"
    /\ \E i \in 1..Len(sched_result) :
           sched_result[i] = [day |-> guaranteed_crisis_day, typ |-> "minor"]
    /\ Len(pipe_events) = Len(sched_result)

\* an event of class typ fired on an earlier day d with d < day < d + boost_period
InOwnBoostWindow(typ) ==
    \E n \in 1..Len(events) :
        /\ events[n].typ = typ
        /\ events[n].day < day
        /\ day < events[n].day + boost_period

\* C25: on a day outside the major cooldown the rate of a class is its base
\* rate times k when an event of that class fired less than boost_period days
\* ago, and its base rate otherwise; events of the other class do not count.
C25_OwnClassExcitation ==
    (sch_pc = "loop" /\ day < days /\ ~(day < major_cooldown_until)) =>
        /\ minor_rate_today =
               base_minor_rate * (IF InOwnBoostWindow("minor") THEN boost_k ELSE 1)
        /\ major_rate_today =
               base_major_rate * (IF InOwnBoostWindow("major") THEN boost_k ELSE 1)

\* a day outside the cooldown on which the minor rate is boosted and the
\* major rate is not, and a day on which it is the other way round
C25_Witness ==
    /\ sch_pc = "loop" /\ day < days /\ ~(day < major_cooldown_until)
    /\ boost_k > 1
    /\ base_minor_rate > 0 /\ base_major_rate > 0
    /\ InOwnBoostWindow("major") /\ ~InOwnBoostWindow("minor")
    /\ \E n \in 1..Len(events) : events[n].typ = "minor"
    /\ major_rate_today = base_major_rate * boost_k
    /\ minor_rate_today = base_minor_rate

\* C26: once a major event fired in a pipeline's scheduler call, the cooldown
\* it set ends later than the boost it set.
C26_CooldownLongerThanBoost ==
    (pipe_pc = "scheduling" /\ \E n \in 1..Len(events) : events[n].typ = "major") =>
        major_cooldown_until > boosted_major_until

\* C28: the event list handed to the composer holds no event on a day
\* strictly between a major event's day d and d + cooldown_period.
C28_CooldownRespectedAfterInjection ==
    pipe_pc = "compose" => NoEventInCooldown(pipe_events)

(* ----------------------- shock envelope: claims ------------------------ *)
\* C13: the envelope simulate_dislocation returns has value exactly 1.0 at
\* index 0, the event's own day, for every drop fraction and every decline
\* and recovery duration.
C13_ContinuityAtOnset ==
    (fn_pc = "returned" /\ fn_args.fn = "simulate_dislocation") => fn_out[1] = One

(* ----------------------- path statistics: claims ----------------------- *)
LostCall == fn_pc = "returned" /\ fn_args.fn = "count_lost_periods"

NonDecreasing(prices) ==
    \A t \in 1..(Len(prices) - 1) : prices[t] <= prices[t + 1]

\* day t of the path is below the running peak
Below(prices, t) == prices[t] < RunMax(prices, t)

\* the first days of the maximal spans below the peak
SpanStarts(prices) ==
    { a \in 1..Len(prices) : Below(prices, a) /\ ~Below(prices, a - 1) }

\* the length of the maximal span that starts on day a
SpanLen(prices, a) ==
    Max({ n \in 1..(Len(prices) - a + 1) :
            \A t \in a..(a + n - 1) : Below(prices, t) })

RECURSIVE SumOver(_, _, _)
SumOver(S, prices, P) ==
    IF S = {} THEN 0
    ELSE LET a == CHOOSE x \in S : TRUE
         IN  (SpanLen(prices, a) \div P) + SumOver(S \ {a}, prices, P)

C16_ZeroOnNonDecreasing ==
    (LostCall /\ Len(fn_args.prices) >= 1 /\ NonDecreasing(fn_args.prices)) =>
        fn_out = [outcome |-> "returned", count |-> 0]

\* C17: for a period of at least one day count_lost_periods returns, and
\* the periods it counts fit into the days after the first: count times
\* period_days is at most len(prices) - 1, hence at most len(prices).
C17_CountUpperBound ==
    (LostCall /\ PeriodDays(fn_args.period_length_years) >= 1) =>
        /\ fn_out.outcome = "returned"
        /\ fn_out.count * PeriodDays(fn_args.period_length_years)
               <= Max({Len(fn_args.prices) - 1, 0})

\* two periods are counted and fill every day after the first
C17_Witness ==
    /\ LostCall
    /\ PeriodDays(fn_args.period_length_years) >= 2
    /\ fn_out.count = 2
    /\ fn_out.count * PeriodDays(fn_args.period_length_years)
           = Len(fn_args.prices) - 1

\* C18 as stated: every maximal span below the peak that lasts at least
\* period_days days adds exactly 1 to the count, however long it lasts.
C18_OnePerMaximalSpan ==
    (LostCall /\ PeriodDays(fn_args.period_length_years) >= 1) =>
        fn_out.count =
            Cardinality({ a \in SpanStarts(fn_args.prices) :
                SpanLen(fn_args.prices, a)
                    >= PeriodDays(fn_args.period_length_years) })

\* C18 amended: a maximal span of L days below the peak adds the number of
\* whole periods it holds, L div period_days, to the count.
C18_WholePeriodsPerSpan ==
    (LostCall /\ PeriodDays(fn_args.period_length_years) >= 1) =>
        /\ fn_out.outcome = "returned"
        /\ fn_out.count =
               SumOver(SpanStarts(fn_args.prices), fn_args.prices,
                       PeriodDays(fn_args.period_length_years))

\* one span below the peak that is two periods long
C18_Witness ==
    /\ LostCall
    /\ PeriodDays(fn_args.period_length_years) = 2
    /\ Cardinality(SpanStarts(fn_args.prices)) = 1
    /\ \E a \in SpanStarts(fn_args.prices) : SpanLen(fn_args.prices, a) = 4
    /\ fn_out.count = 2

\* a window of P days from index i (0-based) on, every price of which is
\* below the running maximum of prices[0..i]
LostWindowAt(prices, P, i) ==
    \A u \in (i + 1)..(i + P) : prices[u] < RunMax(prices, i + 1)

\* C29: for a period of at least one day count_lost_periods returns 1 or
\* more exactly when some window of period_days days that starts at an index
\* i <= len(prices) - period_days lies wholly below the running maximum at i.
C29_GreedyScanComplete ==
    (LostCall /\ PeriodDays(fn_args.period_length_years) >= 1) =>
        /\ fn_out.outcome = "returned"
        /\ (fn_out.count >= 1) <=>
               \E i \in 0..(Len(fn_args.prices)
                               - PeriodDays(fn_args.period_length_years)) :
                   LostWindowAt(fn_args.prices,
                                PeriodDays(fn_args.period_length_years), i)

\* a lost period is found although the window at the first day below the
\* peak is not one, and it is the last window of the path
C29_Witness ==
    /\ LostCall
    /\ PeriodDays(fn_args.period_length_years) = 2
    /\ fn_out.count = 1
    /\ \E i \in 0..(Len(fn_args.prices) - 2) :
           /\ Below(fn_args.prices, i + 1)
           /\ ~LostWindowAt(fn_args.prices, 2, i)
    /\ LostWindowAt(fn_args.prices, 2, Len(fn_args.prices) - 2)

ScanPeriod == PeriodDays(scan_args.period_length_years)

\* C30: in a call of count_lost_periods with a period of at least one day,
\* every round of the loop reads inside the path and moves i up, there are
\* at most len(prices) rounds, and the call returns.
C30_ScanTerminates ==
    /\ []((scan_pc # "idle" /\ ScanPeriod >= 1) =>
            /\ scan_pc # "IndexError"
            /\ scan_iters <= Len(scan_args.prices)
            /\ (scan_pc = "loop" /\ scan_i <= Len(scan_args.prices) - ScanPeriod) =>
                   (0 <= scan_i /\ scan_i + ScanPeriod <= Len(scan_args.prices)
                       /\ scan_i < Len(scan_args.prices)))
    /\ [][(scan_pc = "loop" /\ ScanPeriod >= 1 /\ scan_iters' # scan_iters) =>
              scan_i' > scan_i]_vars
    /\ ((scan_pc = "called" /\ ScanPeriod >= 1) ~> (scan_pc = "returned"))

\* a scan of one-day periods that took as many rounds as the path has days
\* and counted a lost period
C30_Witness ==
    /\ scan_pc = "returned"
    /\ ScanPeriod = 1
    /\ Len(scan_args.prices) >= 3
    /\ scan_iters = Len(scan_args.prices)
    /\ scan_count >= 1

(* ------------------ return capping, generator: claims ------------------ *)
\* C19: apply_return_capping with gamma <= 0 returns its input path, element
\* for element.
C19_IdentityWhenGammaNotPositive ==
    (fn_pc = "returned" /\ fn_args.fn = "apply_return_capping"
        /\ fn_args.gamma <= 0) => fn_out = fn_args.prices

\* a negative gamma and a path the filter would change if it were applied
C19_Witness ==
    /\ fn_pc = "returned"
    /\ fn_args.fn = "apply_return_capping"
    /\ fn_args.gamma < 0
    /\ Capped(fn_args.prices, fn_args.gamma) # fn_args.prices
    /\ fn_out = fn_args.prices

\* C20 as stated: the generator's output has days + 1 elements and its
\* element 0 equals S0.
C20_StartsAtS0 ==
    gen_pc = "returned" =>
        /\ Len(ou_path) = gen_args.days + 1
        /\ ou_path[1] = gen_args.S0

\* C20 amended: the generator's output has days + 1 elements and its
\* element 0 equals log(S0).
C20_StartsAtLogS0 ==
    gen_pc = "returned" =>
        /\ Len(ou_path) = gen_args.days + 1
        /\ ou_path[1] = Ln(gen_args.S0)

\* a returned path of the longest horizon that has moved away from its start
C20_Witness ==
    /\ gen_pc = "returned"
    /\ gen_args.days = MaxHorizon
    /\ ou_path[Len(ou_path)] # ou_path[1]

(* ------------------------ shock composer: claims ----------------------- *)
\* C12: the final price path of every pipeline has element 0 equal to 1.0,
\* whatever events the scheduler fired and wherever the guaranteed event
\* was injected.
C12_PathStartsAtOne ==
    pipe_pc = "done" => path_final_prices[1] = One

\* the shocked price of day s (0-based) as composed so far
ShockedPrice(s) == Mul(base_price_path[s + 1], cumulative_shock[s + 1])

\* C27: in the damping composers the drawdown used for the event of day t is
\* 1 - P_t / max of P_s over the days s <= t, P being the shocked price as
\* composed so far.
C27_DrawdownFromRunningPeak ==
    (pipe_pc = "events" /\ cmp_next <= Len(pipe_events) /\ cmp_variant \in Damped) =>
        current_dd =
            One - Div(ShockedPrice(pipe_events[cmp_next].day),
                      Max({ ShockedPrice(s) : s \in 0..pipe_events[cmp_next].day }))

\* C14: in the calibration objectives and in library generation the drop
\* fraction passed to simulate_dislocation is the drop fraction drawn.
C14_NoDampingOutsideReport ==
    cmp_variant \in CalibrationOrLibrary =>
        \A n \in 1..Len(cmp_drops) : cmp_drops[n].passed = cmp_drops[n].drawn

====
